---- MODULE Spec2Model ----
(***************************************************************************)
(* A model of scraper.py: one scraping run after another against the same  *)
(* artifacts directory: latest.csv and, under archive/, the snapshot, the   *)
(* added and the removed file of each run id.                              *)
(*                                                                         *)
(* Text is a sequence of one-character strings, so that concatenation,     *)
(* number parsing and the CSV round trip are computed, not assumed.        *)
(***************************************************************************)
EXTENDS Integers, Sequences, FiniteSets, TLC

VARIABLES
    pc,         \* where the process is in main(); "idle" between two runs
    clock,      \* the UTC second datetime.utcnow() returns
    runs,       \* number of runs started so far
    files,      \* the artifacts directory: path -> CSV file
    log,        \* the lines this run has appended to run.log
    df_new,     \* main: the scraped DataFrame
    timestamp,  \* main: the run id
    df_old,     \* main: the baseline DataFrame
    added,      \* main: rows reported as added
    removed,    \* main: rows reported as removed
    exc,        \* the exception in flight, "none" if there is none
    exitCode,   \* <<>> while running, <<code>> once the process has exited
    committed   \* history: the artifacts directory when a run last exited 0

vars == <<pc, clock, runs, files, log, df_new, timestamp, df_old, added,
          removed, exc, exitCode, committed>>

----------------------------------------------------------------------------
(* Bounds *)

MaxRuns == 3
MaxClock == 3
MaxDiffRows == 2
MaxTextLen == 2

----------------------------------------------------------------------------
(* Text *)

Digits == {"0", "1", "2", "3", "4", "5", "6", "7", "8", "9"}

IsDigits(s) == Len(s) > 0 /\ \A i \in 1..Len(s) : s[i] \in Digits

RECURSIVE StripLeadingZeros(_)
StripLeadingZeros(s) ==
    IF Len(s) > 1 /\ s[1] = "0" THEN StripLeadingZeros(Tail(s)) ELSE s

RECURSIVE StripTrailingZeros(_)
StripTrailingZeros(s) ==
    IF Len(s) > 1 /\ s[Len(s)] = "0"
    THEN StripTrailingZeros(SubSeq(s, 1, Len(s) - 1))
    ELSE s

HasSign(s) == Len(s) > 0 /\ s[1] \in {"+", "-"}

Unsigned(s) == IF HasSign(s) THEN Tail(s) ELSE s

\* the positions of the decimal point
Dots(s) == {i \in 1..Len(s) : s[i] = "."}

IsInt(s) == IsDigits(Unsigned(s))

\* digits "." digits, at least one digit in all
IsDecimal(s) ==
    LET u == Unsigned(s) IN
    /\ Cardinality(Dots(u)) = 1
    /\ Len(u) > 1
    /\ \A i \in 1..Len(u) : u[i] \in Digits \cup {"."}

IntPart(u) == LET d == CHOOSE i \in Dots(u) : TRUE IN SubSeq(u, 1, d - 1)

FracPart(u) == LET d == CHOOSE i \in Dots(u) : TRUE IN SubSeq(u, d + 1, Len(u))

IsZero(digits) == \A i \in 1..Len(digits) : digits[i] = "0"

\* str(int(s)): what pandas writes for an int64 cell parsed from s
IntText(s) ==
    LET m == StripLeadingZeros(Unsigned(s)) IN
    IF HasSign(s) /\ s[1] = "-" /\ ~IsZero(m) THEN <<"-">> \o m ELSE m

\* repr(float(s)) for a decimal or an integer below 10^16 in magnitude
FloatText(s) ==
    LET u == Unsigned(s)
        ip == IF IsInt(s) THEN u ELSE IntPart(u)
        fp == IF IsInt(s) THEN <<>> ELSE FracPart(u)
        i == StripLeadingZeros(IF ip = <<>> THEN <<"0">> ELSE ip)
        f == StripTrailingZeros(IF fp = <<>> THEN <<"0">> ELSE fp)
    IN  (IF HasSign(s) /\ s[1] = "-" THEN <<"-">> ELSE <<>>) \o i \o <<".">> \o f

\* pandas' default na_values (the ones the alphabet of the model can spell)
NaValues ==
    { <<>>, <<"N", "A">>, <<"N", "/", "A">>, <<"n", "/", "a">>,
      <<"N", "a", "N">>, <<"n", "a", "n">>, <<"N", "U", "L", "L">>,
      <<"n", "u", "l", "l">>, <<"#", "N", "A">>, <<"#", "N", "/", "A">>,
      <<"<", "N", "A", ">">>, <<"-", "N", "a", "N">>, <<"-", "n", "a", "n">> }

----------------------------------------------------------------------------
(* DataFrames and CSV files *)

Columns == <<"name", "price", "hash">>

Range(s) == {s[i] : i \in 1..Len(s)}

\* a cell: its dtype, whether it is NaN, and str(value)
StrCell(s) == [dtype |-> "object", na |-> FALSE, text |-> s]

NaNCell(dtype) == [dtype |-> dtype, na |-> TRUE, text |-> <<"n", "a", "n">>]

\* hashlib.sha256(value.encode("utf-8")).hexdigest(): the digest stands for
\* the text it was computed from (SHA-256 is taken to be collision free)
get_hash(value) == <<"sha256">> \o value

\* lines 37-40: one scraped row
ScrapedRow(name, price) ==
    [c \in Range(Columns) |->
        IF c = "name" THEN StrCell(name)
        ELSE IF c = "price" THEN StrCell(price)
        ELSE StrCell(get_hash(name \o <<"|">> \o price))]

\* pd.DataFrame(data): a list of no dicts gives a frame with no columns
DataFrame(data) ==
    [columns |-> IF data = <<>> THEN <<>> ELSE Columns, rows |-> data]

\* pd.DataFrame() with the columns argument left out
EmptyFrame_no_columns(cols) == [columns |-> <<>>, rows |-> <<>>]

\* pd.DataFrame(columns=cols)
EmptyFrame(cols) == [columns |-> cols, rows |-> <<>>]

\* DataFrame.empty taken to mean "has no columns"
empty_no_columns(df) == df.columns = <<>>

empty(df) == df.rows = <<>>

\* Series.astype(str) of one cell
astype_str(cell) == cell.text

\* what to_csv writes for one cell (na_rep is "")
CellCsv(cell) == IF cell.na THEN <<>> ELSE cell.text

\* df.to_csv(path, index=False): the header line and one line per row
to_csv(df) ==
    [header |-> df.columns,
     lines |-> [i \in 1..Len(df.rows) |->
                   [c \in Range(df.columns) |-> CellCsv(df.rows[i][c])]]]

\* os.path.getsize: every line ends in a line terminator, the header
\* line included, so a written file is never empty
getsize(file) == 1 + Len(file.header) + Len(file.lines)

\* the dtype read_csv infers for a column from its texts
InferDtype(texts) ==
    LET vals == {texts[i] : i \in {j \in 1..Len(texts) : texts[j] \notin NaValues}}
        anyNa == \E i \in 1..Len(texts) : texts[i] \in NaValues
    IN  IF vals = {} THEN (IF texts = <<>> THEN "object" ELSE "float64")
        ELSE IF \A v \in vals : IsInt(v) THEN (IF anyNa THEN "float64" ELSE "int64")
        ELSE IF \A v \in vals : IsInt(v) \/ IsDecimal(v) THEN "float64"
        ELSE "object"

\* one cell as read_csv parses it, given the column's dtype
ParseCell(text, dtype) ==
    IF text \in NaValues THEN NaNCell(dtype)
    ELSE [dtype |-> dtype, na |-> FALSE,
          text |-> IF dtype = "int64" THEN IntText(text)
                   ELSE IF dtype = "float64" THEN FloatText(text)
                   ELSE text]

\* pd.read_csv(path) of a file that has a header line
read_csv(file) ==
    LET n == Len(file.lines)
        col(c) == [i \in 1..n |-> file.lines[i][c]]
    IN  [columns |-> file.header,
         rows |-> [i \in 1..n |->
                      [c \in Range(file.header) |->
                          ParseCell(file.lines[i][c], InferDtype(col(c)))]]]

\* Series.isin(values) for one cell: values holds str objects only
isin(cell, values) ==
    cell.dtype = "object" /\ ~cell.na /\ cell.text \in values

\* the rows keyed by their name column instead of their hash column
HashSet_by_name(df) == {astype_str(df.rows[i]["name"]) : i \in 1..Len(df.rows)}

HashSet(df) == {astype_str(df.rows[i]["hash"]) : i \in 1..Len(df.rows)}

\* detect_deltas with line 53 a copy of line 52
detect_deltas_copied_line(new, old) ==
    LET old_hashes == HashSet(old)
        new_hashes == HashSet(new)
        added_hashes == new_hashes \ old_hashes
        removed_hashes == new_hashes \ old_hashes
    IN  [added |-> [columns |-> new.columns,
                    rows |-> SelectSeq(new.rows,
                                 LAMBDA r : isin(r["hash"], added_hashes))],
         removed |-> [columns |-> old.columns,
                      rows |-> SelectSeq(old.rows,
                                   LAMBDA r : isin(r["hash"], removed_hashes))]]

\* detect_deltas with the subtraction of line 52 left out
detect_deltas_no_subtraction(new, old) ==
    LET old_hashes == HashSet(old)
        new_hashes == HashSet(new)
        added_hashes == new_hashes
        removed_hashes == old_hashes \ new_hashes
    IN  [added |-> [columns |-> new.columns,
                    rows |-> SelectSeq(new.rows,
                                 LAMBDA r : isin(r["hash"], added_hashes))],
         removed |-> [columns |-> old.columns,
                      rows |-> SelectSeq(old.rows,
                                   LAMBDA r : isin(r["hash"], removed_hashes))]]

\* DataFrame.drop_duplicates(): the first of every run of equal rows
RECURSIVE drop_duplicates(_)
drop_duplicates(rows) ==
    IF rows = <<>> THEN <<>>
    ELSE LET front == SubSeq(rows, 1, Len(rows) - 1)
             last == rows[Len(rows)]
         IN  IF \E i \in 1..Len(front) : front[i] = last
             THEN drop_duplicates(front)
             ELSE Append(drop_duplicates(front), last)

\* detect_deltas with .drop_duplicates() in place of .copy() at lines 55-56
detect_deltas_drop_duplicates(new, old) ==
    LET old_hashes == HashSet(old)
        new_hashes == HashSet(new)
        added_hashes == new_hashes \ old_hashes
        removed_hashes == old_hashes \ new_hashes
    IN  [added |-> [columns |-> new.columns,
                    rows |-> drop_duplicates(SelectSeq(new.rows,
                                 LAMBDA r : isin(r["hash"], added_hashes)))],
         removed |-> [columns |-> old.columns,
                      rows |-> drop_duplicates(SelectSeq(old.rows,
                                   LAMBDA r : isin(r["hash"], removed_hashes)))]]

\* lines 46-57
detect_deltas(new, old) ==
    LET old_hashes == HashSet(old)
        new_hashes == HashSet(new)
        added_hashes == new_hashes \ old_hashes
        removed_hashes == old_hashes \ new_hashes
    IN  [added |-> [columns |-> new.columns,
                    rows |-> SelectSeq(new.rows,
                                 LAMBDA r : isin(r["hash"], added_hashes))],
         removed |-> [columns |-> old.columns,
                      rows |-> SelectSeq(old.rows,
                                   LAMBDA r : isin(r["hash"], removed_hashes))]]

----------------------------------------------------------------------------
(* The artifacts directory *)

\* LATEST_PATH, and the archive paths f"{kind}_{timestamp}.csv"
LATEST_PATH == <<"latest", 0>>

\* archive paths without the run id: f"{kind}.csv"
ArchivePath_no_run_id(kind, ts) == <<kind, 0>>

ArchivePath(kind, ts) == <<kind, ts>>

exists(fs, path) == path \in DOMAIN fs

\* open(path, "w") and write: creates the file or replaces its content
Write(fs, path, file) ==
    [p \in DOMAIN fs \cup {path} |-> IF p = path THEN file ELSE fs[p]]

\* sorted([p for p in os.listdir(ARCHIVE_DIR) if p.startswith("snapshot_")]):
\* the run ids are fixed-width %Y%m%d_%H%M%S, so name order is time order
archived_snapshots(fs) == {p \in DOMAIN fs : p[1] = "snapshot"}

\* archived_snapshots[0] instead of archived_snapshots[-1]
latest_archived_first(fs) ==
    CHOOSE p \in archived_snapshots(fs) :
        \A q \in archived_snapshots(fs) : p[2] <= q[2]

latest_archived(fs) ==
    CHOOSE p \in archived_snapshots(fs) :
        \A q \in archived_snapshots(fs) : q[2] <= p[2]

\* log(msg): one line appended to run.log
Message(msg, n, path) == [msg |-> msg, n |-> n, path |-> path]

----------------------------------------------------------------------------
(* What the page can show *)

\* three rows: product A at two prices, and product A with no .price element
RowA10 == ScrapedRow(<<"A">>, <<"1", "0">>)

RowA12 == ScrapedRow(<<"A">>, <<"1", "2">>)

RowANoPrice == ScrapedRow(<<"A">>, <<>>)

\* the lists of product cards query_selector_all can return: no card, one
\* card, two cards, the same card twice, a card without a price
Pages ==
    { <<>>, <<RowA10>>, <<RowA12>>, <<RowA10, RowA12>>, <<RowA10, RowA10>>,
      <<RowA10, RowANoPrice>> }

NoFrame == EmptyFrame(<<>>)

----------------------------------------------------------------------------
(* The runs: one process at a time, each a pass through main().  A call   *)
(* that raises for a reason outside the program (the fetch, a read or a    *)
(* write the file system refuses) is an action of its own; a refused write *)
(* leaves the file as it was.  log() does not raise.                       *)

Init ==
    /\ pc = "idle"
    /\ clock = 1
    /\ runs = 0
    /\ files = <<>>
    /\ log = <<>>
    /\ df_new = NoFrame
    /\ timestamp = 0
    /\ df_old = NoFrame
    /\ added = NoFrame
    /\ removed = NoFrame
    /\ exc = "none"
    /\ exitCode = <<>>
    /\ committed = <<>>

\* time passes between two runs
Tick ==
    /\ pc = "idle"
    /\ clock < MaxClock
    /\ clock' = clock + 1
    /\ UNCHANGED <<pc, runs, files, log, df_new, timestamp, df_old, added,
                   removed, exc, exitCode, committed>>

\* a new process: lines 59-61 and 22-44, the page yields data
ScrapeOk ==
    /\ pc = "idle"
    /\ runs < MaxRuns
    /\ \E data \in Pages :
        /\ df_new' = DataFrame(data)
        /\ log' = << Message("Starting scrape", 0, <<>>),
                     Message("Scraped items", Len(data), <<>>) >>
    /\ runs' = runs + 1
    /\ pc' = "save_latest"
    /\ timestamp' = 0
    /\ df_old' = NoFrame
    /\ added' = NoFrame
    /\ removed' = NoFrame
    /\ exc' = "none"
    /\ exitCode' = <<>>
    /\ UNCHANGED <<clock, files, committed>>

\* lines 59-64 with a second attempt at scrape_page before giving up
ScrapeFails_retries ==
    /\ pc = "idle"
    /\ runs < MaxRuns
    /\ log' = << Message("Starting scrape", 0, <<>>),
                 Message("Starting scrape", 0, <<>>),
                 Message("ERROR during scrape", 0, <<>>) >>
    /\ runs' = runs + 1
    /\ pc' = "raised"
    /\ exc' = "FetchError"
    /\ df_new' = NoFrame
    /\ timestamp' = 0
    /\ df_old' = NoFrame
    /\ added' = NoFrame
    /\ removed' = NoFrame
    /\ exitCode' = <<>>
    /\ UNCHANGED <<clock, files, committed>>

\* a new process: lines 59-64, scrape_page raises
ScrapeFails ==
    /\ pc = "idle"
    /\ runs < MaxRuns
    /\ log' = << Message("Starting scrape", 0, <<>>),
                 Message("ERROR during scrape", 0, <<>>) >>
    /\ runs' = runs + 1
    /\ pc' = "raised"
    /\ exc' = "FetchError"
    /\ df_new' = NoFrame
    /\ timestamp' = 0
    /\ df_old' = NoFrame
    /\ added' = NoFrame
    /\ removed' = NoFrame
    /\ exitCode' = <<>>
    /\ UNCHANGED <<clock, files, committed>>

\* lines 66-70
SaveLatest ==
    /\ pc = "save_latest"
    /\ timestamp' = clock
    /\ files' = Write(files, LATEST_PATH, to_csv(df_new))
    /\ log' = Append(log, Message("Wrote latest snapshot", 0, LATEST_PATH))
    /\ pc' = "load_previous"
    /\ UNCHANGED <<clock, runs, df_new, df_old, added, removed, exc, exitCode,
                   committed>>

\* lines 66-69, to_csv raises before it has touched the file
SaveLatestFails ==
    /\ pc = "save_latest"
    /\ timestamp' = clock
    /\ exc' = "OSError"
    /\ pc' = "raised"
    /\ UNCHANGED <<clock, runs, files, log, df_new, df_old, added, removed,
                   exitCode, committed>>

\* lines 72-80
LoadPrevious ==
    /\ pc = "load_previous"
    /\ IF exists(files, LATEST_PATH) /\ exists(files, LATEST_PATH)
          /\ getsize(files[LATEST_PATH]) > 0
       THEN IF archived_snapshots(files) # {}
            THEN LET file == files[latest_archived(files)] IN
                 IF file.header = <<>>
                 THEN /\ exc' = "EmptyDataError"
                      /\ pc' = "raised"
                      /\ UNCHANGED df_old
                 ELSE /\ df_old' = read_csv(file)
                      /\ pc' = "detect_deltas"
                      /\ UNCHANGED exc
            ELSE /\ df_old' = EmptyFrame(df_new.columns)
                 /\ pc' = "detect_deltas"
                 /\ UNCHANGED exc
       ELSE /\ pc' = "archive"
            /\ UNCHANGED <<df_old, exc>>
    /\ UNCHANGED <<clock, runs, files, log, df_new, timestamp, added, removed,
                   exitCode, committed>>

\* line 77, read_csv raises on the archived snapshot
LoadPreviousFails ==
    /\ pc = "load_previous"
    /\ exists(files, LATEST_PATH)
    /\ getsize(files[LATEST_PATH]) > 0
    /\ archived_snapshots(files) # {}
    /\ exc' = "OSError"
    /\ pc' = "raised"
    /\ UNCHANGED <<clock, runs, files, log, df_new, timestamp, df_old, added,
                   removed, exitCode, committed>>

\* line 82: df["hash"] raises KeyError on a frame without that column
Detect ==
    /\ pc = "detect_deltas"
    /\ IF "hash" \in Range(df_old.columns) /\ "hash" \in Range(df_new.columns)
       THEN /\ added' = detect_deltas(df_new, df_old).added
            /\ removed' = detect_deltas(df_new, df_old).removed
            /\ pc' = "delta"
            /\ UNCHANGED exc
       ELSE /\ exc' = "KeyError"
            /\ pc' = "raised"
            /\ UNCHANGED <<added, removed>>
    /\ UNCHANGED <<clock, runs, files, log, df_new, timestamp, df_old,
                   exitCode, committed>>

\* lines 84-89
WriteAdded ==
    /\ pc = "delta"
    /\ ~empty(added)
    /\ files' = Write(files, ArchivePath("added", timestamp), to_csv(added))
    /\ log' = Append(log, Message("Found added/changed rows", Len(added.rows),
                                  ArchivePath("added", timestamp)))
    /\ pc' = IF ~empty(removed) THEN "delta_removed" ELSE "archive"
    /\ UNCHANGED <<clock, runs, df_new, timestamp, df_old, added, removed, exc,
                   exitCode, committed>>

\* line 88, to_csv raises before it has touched the file
WriteAddedFails ==
    /\ pc = "delta"
    /\ ~empty(added)
    /\ exc' = "OSError"
    /\ pc' = "raised"
    /\ UNCHANGED <<clock, runs, files, log, df_new, timestamp, df_old, added,
                   removed, exitCode, committed>>

AtRemoved == pc = "delta_removed" \/ (pc = "delta" /\ empty(added))

\* lines 90-92
WriteRemoved ==
    /\ AtRemoved
    /\ ~empty(removed)
    /\ files' = Write(files, ArchivePath("removed", timestamp), to_csv(removed))
    /\ log' = Append(log, Message("Found removed rows", Len(removed.rows),
                                  ArchivePath("removed", timestamp)))
    /\ pc' = "archive"
    /\ UNCHANGED <<clock, runs, df_new, timestamp, df_old, added, removed, exc,
                   exitCode, committed>>

\* line 91, to_csv raises before it has touched the file
WriteRemovedFails ==
    /\ AtRemoved
    /\ ~empty(removed)
    /\ exc' = "OSError"
    /\ pc' = "raised"
    /\ UNCHANGED <<clock, runs, files, log, df_new, timestamp, df_old, added,
                   removed, exitCode, committed>>

\* lines 93-94
NoChanges ==
    /\ pc = "delta"
    /\ empty(added)
    /\ empty(removed)
    /\ log' = Append(log, Message("No changes detected.", 0, <<>>))
    /\ pc' = "archive"
    /\ UNCHANGED <<clock, runs, files, df_new, timestamp, df_old, added,
                   removed, exc, exitCode, committed>>

\* lines 96-99
ArchiveSnapshot ==
    /\ pc = "archive"
    /\ files' = Write(files, ArchivePath("snapshot", timestamp), to_csv(df_new))
    /\ log' = Append(log, Message("Archived snapshot", 0,
                                  ArchivePath("snapshot", timestamp)))
    /\ pc' = "return"
    /\ UNCHANGED <<clock, runs, df_new, timestamp, df_old, added, removed, exc,
                   exitCode, committed>>

\* line 98, to_csv raises before it has touched the file
ArchiveSnapshotFails ==
    /\ pc = "archive"
    /\ exc' = "OSError"
    /\ pc' = "raised"
    /\ UNCHANGED <<clock, runs, files, log, df_new, timestamp, df_old, added,
                   removed, exitCode, committed>>

\* lines 103 and 107: main returned
ExitOk ==
    /\ pc = "return"
    /\ exitCode' = <<0>>
    /\ committed' = files
    /\ pc' = "idle"
    /\ UNCHANGED <<clock, runs, files, log, df_new, timestamp, df_old, added,
                   removed, exc>>

\* the handler of lines 104-106 without its sys.exit(2)
Fatal_falls_through ==
    /\ pc = "raised"
    /\ log' = Append(log, Message("FATAL ERROR", 0, <<>>))
    /\ exitCode' = <<0>>
    /\ pc' = "idle"
    /\ UNCHANGED <<clock, runs, files, df_new, timestamp, df_old, added,
                   removed, exc, committed>>

\* lines 104-106: main raised
Fatal ==
    /\ pc = "raised"
    /\ log' = Append(log, Message("FATAL ERROR", 0, <<>>))
    /\ exitCode' = <<2>>
    /\ pc' = "idle"
    /\ UNCHANGED <<clock, runs, files, df_new, timestamp, df_old, added,
                   removed, exc, committed>>

Next ==
    \/ Tick
    \/ ScrapeOk
    \/ ScrapeFails
    \/ SaveLatest
    \/ SaveLatestFails
    \/ LoadPrevious
    \/ LoadPreviousFails
    \/ Detect
    \/ WriteAdded
    \/ WriteAddedFails
    \/ WriteRemoved
    \/ WriteRemovedFails
    \/ NoChanges
    \/ ArchiveSnapshot
    \/ ArchiveSnapshotFails
    \/ ExitOk
    \/ Fatal

Spec == Init /\ [][Next]_vars

----------------------------------------------------------------------------
(* detect_deltas on its own: every pair of snapshots that carry a hash     *)
(* column, as scraped or as read back from a CSV file                      *)

SeqsUpTo(S, n) == UNION {[1..k -> S] : k \in 0..n}

HashedFrames ==
    {[columns |-> Columns, rows |-> rows] :
        rows \in SeqsUpTo({RowA10, RowA12, RowANoPrice}, MaxDiffRows)}

InitDiff ==
    /\ pc = "detect_deltas"
    /\ df_new \in HashedFrames
    /\ df_old \in HashedFrames \cup {read_csv(to_csv(f)) : f \in HashedFrames}
    /\ clock = 1
    /\ runs = 1
    /\ files = <<>>
    /\ log = <<>>
    /\ timestamp = 1
    /\ added = NoFrame
    /\ removed = NoFrame
    /\ exc = "none"
    /\ exitCode = <<>>
    /\ committed = <<>>

SpecDiff == InitDiff /\ [][Detect]_vars

----------------------------------------------------------------------------
(* The runs when the process can be killed.  to_csv opens latest.csv for   *)
(* writing, which truncates it, and then writes: between the two the file  *)
(* holds nothing, or the header and the first lines of the new snapshot.   *)

TornFiles(file) ==
    {[header |-> <<>>, lines |-> <<>>]}
        \cup {[header |-> file.header, lines |-> SubSeq(file.lines, 1, k)] :
                 k \in 0..(Len(file.lines) - 1)}

\* lines 66-69, up to some point inside to_csv
SaveLatestBegins ==
    /\ pc = "save_latest"
    /\ timestamp' = clock
    /\ \E torn \in TornFiles(to_csv(df_new)) :
           files' = Write(files, LATEST_PATH, torn)
    /\ pc' = "save_latest_writing"
    /\ UNCHANGED <<clock, runs, log, df_new, df_old, added, removed, exc,
                   exitCode, committed>>

\* lines 69-70, the rest of to_csv
SaveLatestCompletes ==
    /\ pc = "save_latest_writing"
    /\ files' = Write(files, LATEST_PATH, to_csv(df_new))
    /\ log' = Append(log, Message("Wrote latest snapshot", 0, LATEST_PATH))
    /\ pc' = "load_previous"
    /\ UNCHANGED <<clock, runs, df_new, timestamp, df_old, added, removed,
                   exc, exitCode, committed>>

\* SIGKILL at any point of a run: no handler runs, the shell sees 137
Kill ==
    /\ pc # "idle"
    /\ pc' = "idle"
    /\ exitCode' = <<137>>
    /\ UNCHANGED <<clock, runs, files, log, df_new, timestamp, df_old, added,
                   removed, exc, committed>>

NextKill ==
    \/ Next
    \/ SaveLatestBegins
    \/ SaveLatestCompletes
    \/ Kill

SpecKill == Init /\ [][NextKill]_vars

----------------------------------------------------------------------------
(* The fingerprint on its own: one card scraped against a baseline of one  *)
(* card read back from its CSV file, names and prices being any text of    *)
(* letters and separator characters                                       *)

CardTexts == SeqsUpTo({"A", "|"}, MaxTextLen)

InitHash ==
    /\ pc = "detect_deltas"
    /\ \E name \in CardTexts, price \in CardTexts :
           df_new = DataFrame(<<ScrapedRow(name, price)>>)
    /\ \E name \in CardTexts, price \in CardTexts :
           df_old = read_csv(to_csv(DataFrame(<<ScrapedRow(name, price)>>)))
    /\ clock = 1
    /\ runs = 1
    /\ files = <<>>
    /\ log = <<>>
    /\ timestamp = 1
    /\ added = NoFrame
    /\ removed = NoFrame
    /\ exc = "none"
    /\ exitCode = <<>>
    /\ committed = <<>>

SpecHash == InitHash /\ [][Detect]_vars

----------------------------------------------------------------------------
(* Claims *)

Fingerprint(row) == row["hash"].text

OccursIn(fp, df) == \E j \in 1..Len(df.rows) : Fingerprint(df.rows[j]) = fp

\* C1: detect_deltas(new, old) returns as added exactly the rows of new whose
\* fingerprint is the fingerprint of no row of old, and as removed exactly the
\* rows of old whose fingerprint is the fingerprint of no row of new; no
\* fingerprint of added is a fingerprint of old, and every row of new is
\* either in added or has its fingerprint in old, never both (partition).
C1_DeltaIsFingerprintDifference ==
    pc = "delta" =>
        /\ added.rows = SelectSeq(df_new.rows,
                            LAMBDA r : ~OccursIn(Fingerprint(r), df_old))
        /\ removed.rows = SelectSeq(df_old.rows,
                              LAMBDA r : ~OccursIn(Fingerprint(r), df_new))
        /\ \A i \in 1..Len(added.rows) :
               ~OccursIn(Fingerprint(added.rows[i]), df_old)
        /\ \A i \in 1..Len(df_new.rows) :
               OccursIn(Fingerprint(df_new.rows[i]), added)
                   # OccursIn(Fingerprint(df_new.rows[i]), df_old)
        /\ Len(added.rows)
               + Len(SelectSeq(df_new.rows,
                         LAMBDA r : OccursIn(Fingerprint(r), df_old)))
             = Len(df_new.rows)

\* a diff with rows added, rows removed and rows unchanged
C1_Witness ==
    /\ pc = "delta"
    /\ ~empty(added)
    /\ ~empty(removed)
    /\ Len(added.rows) < Len(df_new.rows)

ArchiveFiles(fs) == DOMAIN fs \ {LATEST_PATH}

DeltaFiles(fs) == {p \in ArchiveFiles(fs) : p[1] \in {"added", "removed"}}

\* the archive file of the given kind under the run id of the current run
Own(kind) == ArchivePath(kind, timestamp)

Logged(msg) == \E i \in 1..Len(log) : log[i].msg = msg

\* C3: a run that ends in a fatal error, at whatever stage, exits non-zero
\* and leaves latest.csv and the archive exactly as they were when a run last
\* exited 0 (as they were initially when none has).
C3_FatalRunLeavesArtifactsUnchanged ==
    (pc = "idle" /\ exc # "none") => exitCode = <<2>> /\ files = committed

\* C4: the old snapshot a run diffs against is the snapshot of the most
\* recent earlier run that exited 0 (which that run archived, and which
\* latest.csv held when it exited), read back from its CSV file; it is the
\* empty snapshot with the columns of the new one when no earlier run
\* exited 0.  Run ids never decrease from one run to the next.
C4_BaselineIsLastArchivedSnapshot ==
    pc = "detect_deltas" =>
        IF LATEST_PATH \in DOMAIN committed
        THEN df_old = read_csv(committed[LATEST_PATH])
        ELSE df_old = EmptyFrame(df_new.columns)

\* the third run, with two different snapshots archived under older run ids,
\* diffs against the newer of the two
C4_Witness ==
    /\ pc = "detect_deltas"
    /\ runs = 3
    /\ Cardinality(archived_snapshots(files)) = 2
    /\ \A p \in archived_snapshots(files) : p[2] < timestamp
    /\ \E p, q \in archived_snapshots(files) :
           /\ p[2] < q[2]
           /\ files[p] # files[q]
           /\ df_old = read_csv(files[q])

\* C5: no step of any run replaces the content of a file that is already in
\* the archive, also when two runs obtain the same run id.
C5_ArchiveNeverOverwritten ==
    [][\A p \in ArchiveFiles(files) :
           p \in DOMAIN files' /\ files'[p] = files[p]]_vars

\* C6: a file under archive/ is never removed, and its content is changed
\* only by a run whose run id is the one in the file's name: runs with other
\* run ids leave it as it is.
C6_ArchiveAppendOnly ==
    [][\A p \in ArchiveFiles(files) :
           /\ p \in DOMAIN files'
           /\ files'[p] # files[p] => p[2] = timestamp']_vars

\* a run has archived its snapshot next to the snapshot and the added file
\* of an earlier run id
C6_Witness ==
    /\ pc = "return"
    /\ \E p \in archived_snapshots(files) : p[2] < timestamp
    /\ \E p \in DeltaFiles(files) : p[2] < timestamp
    /\ Own("snapshot") \in DOMAIN files

NoEmptyDeltaFile == \A p \in DeltaFiles(files) : files[p].lines # <<>>

DeltaWrittenOnlyIfNonEmpty ==
    \A p \in DeltaFiles(files') :
        (p \notin DOMAIN files \/ files'[p] # files[p]) =>
            /\ p[1] = "added" => ~(added.rows = <<>>)
            /\ p[1] = "removed" => ~(removed.rows = <<>>)

\* C7: no added or removed file in the archive has zero data rows, and a
\* step creates or changes an added (removed) file only when the run's added
\* (removed) set is not empty; a run with both sets empty writes neither.
C7_NoEmptyArtifact == []NoEmptyDeltaFile /\ [][DeltaWrittenOnlyIfNonEmpty]_vars

\* a run found no change and is about to archive: no delta file carries its
\* run id, while an earlier run id has one
C7_Witness ==
    /\ pc = "return"
    /\ added.rows = <<>>
    /\ removed.rows = <<>>
    /\ Logged("No changes detected.")
    /\ Own("added") \notin DOMAIN files
    /\ Own("removed") \notin DOMAIN files
    /\ DeltaFiles(files) # {}

\* C8: a run that has ended has exit code 0 or 2 and a run under way can
\* take a step; exit code 0 only with no exception raised and with latest.csv
\* and the run's archived snapshot both holding the scraped frame; a raised
\* exception (fetch, persistence or other) gives exit code 2.
C8_ExitCodes ==
    /\ exitCode \in {<<>>, <<0>>, <<2>>}
    /\ pc = "idle" /\ runs > 0 => exitCode # <<>>
    /\ pc # "idle" => exitCode = <<>> /\ ENABLED Next
    /\ exitCode = <<0>> =>
           /\ exc = "none"
           /\ LATEST_PATH \in DOMAIN files
           /\ files[LATEST_PATH] = to_csv(df_new)
           /\ Own("snapshot") \in DOMAIN files
           /\ files[Own("snapshot")] = to_csv(df_new)
    /\ pc = "idle" /\ exc # "none" => exitCode = <<2>>

\* the second run has exited 0 with the no-changes outcome
C8_Witness ==
    /\ pc = "idle"
    /\ runs = 2
    /\ exitCode = <<0>>
    /\ Logged("No changes detected.")
    /\ ~(df_new.rows = <<>>)

HasLine(file, name, price) ==
    \E i \in 1..Len(file.lines) :
        file.lines[i]["name"] = name /\ file.lines[i]["price"] = price

FileHashes(file) == {file.lines[i]["hash"] : i \in 1..Len(file.lines)}

PriceChangeReported ==
    (pc = "return" /\ LATEST_PATH \in DOMAIN committed) =>
        LET old == committed[LATEST_PATH]
            new == to_csv(df_new)
        IN  /\ \A i \in 1..Len(old.lines), j \in 1..Len(new.lines) :
                   ( /\ old.lines[i]["name"] = new.lines[j]["name"]
                     /\ old.lines[i]["price"] # new.lines[j]["price"]
                     /\ ~HasLine(new, old.lines[i]["name"], old.lines[i]["price"])
                     /\ ~HasLine(old, new.lines[j]["name"], new.lines[j]["price"]) )
                   => /\ Own("added") \in DOMAIN files
                      /\ new.lines[j] \in Range(files[Own("added")].lines)
                      /\ Logged("Found added/changed rows")
                      /\ Own("removed") \in DOMAIN files
                      /\ old.lines[i]["hash"] \in FileHashes(files[Own("removed")])
                      /\ to_csv(read_csv(old)).lines[i]
                             \in Range(files[Own("removed")].lines)
                      /\ Logged("Found removed rows")
            /\ FileHashes(new) = FileHashes(old)
                   => /\ Logged("No changes detected.")
                      /\ ~Logged("Found added/changed rows")
                      /\ ~Logged("Found removed rows")

NoDeltaWriteWithoutChange ==
    ( /\ pc # "idle"
      /\ LATEST_PATH \in DOMAIN committed
      /\ FileHashes(to_csv(df_new)) = FileHashes(committed[LATEST_PATH]) )
    => \A p \in DeltaFiles(files') : p \in DOMAIN files /\ files'[p] = files[p]

\* C9: in a run about to exit 0 after an earlier run exited 0: for a name
\* that the earlier snapshot has at one price and the new snapshot at another
\* (the old pair gone, the new pair not there before), the run's added file
\* holds the new row and its removed file holds the old row (the row of that
\* fingerprint, as pandas reads it back from the CSV file); and when the new snapshot has the same set of fingerprints as
\* the earlier one, the run has logged that no changes were detected, and no
\* step of such a run creates or changes an added or removed file.
C9_ChangeDetection == []PriceChangeReported /\ [][NoDeltaWriteWithoutChange]_vars

\* the run after a successful run that scraped A at 10 scrapes A at 12
C9_Witness ==
    /\ pc = "return"
    /\ runs = 2
    /\ LATEST_PATH \in DOMAIN committed
    /\ committed[LATEST_PATH] = to_csv(DataFrame(<<RowA10>>))
    /\ df_new = DataFrame(<<RowA12>>)
    /\ Own("added") \in DOMAIN files
    /\ Own("removed") \in DOMAIN files

\* no run has archived a snapshot before this one, which scraped a record
Bootstrap ==
    /\ archived_snapshots(committed) = {}
    /\ archived_snapshots(files) \subseteq {Own("snapshot")}
    /\ ~(df_new.rows = <<>>)

\* C10: on a run with no snapshot archived before it and at least one
\* scraped record, every scraped row is added and none removed; once main
\* returns, the run's added file holds all the scraped rows and there is no
\* removed file for its run id; and the run raises nothing but the OSError
\* of a write the file system refuses.
C10_Bootstrap ==
    Bootstrap =>
        /\ pc \in {"delta", "delta_removed", "archive", "return"} =>
               added.rows = df_new.rows /\ removed.rows = <<>>
        /\ pc = "return" =>
               /\ Own("added") \in DOMAIN files
               /\ files[Own("added")] = to_csv(df_new)
               /\ Own("removed") \notin DOMAIN files
               /\ exc = "none"
        /\ exc \in {"none", "OSError"}

\* a first successful run that scraped two rows
C10_Witness ==
    /\ Bootstrap
    /\ pc = "return"
    /\ Len(df_new.rows) = 2
    /\ files[Own("added")] = to_csv(df_new)

\* C11: a run that scraped zero records and met no refused read or write
\* exits 0, reports every row of the previous snapshot as removed (its
\* removed file holds them all when there are any), writes no added file and
\* archives the empty snapshot.
C11_EmptyFetchIsNotAnError ==
    ( /\ pc = "idle"
      /\ Logged("Scraped items")
      /\ df_new.rows = <<>>
      /\ exc # "OSError" )
    => /\ exitCode = <<0>>
       /\ removed.rows = df_old.rows
       /\ df_old.rows # <<>> =>
              /\ Own("removed") \in DOMAIN files
              /\ files[Own("removed")] = to_csv(df_old)
       /\ added.rows = <<>>
       /\ ~Logged("Found added/changed rows")
       /\ Own("snapshot") \in DOMAIN files
       /\ files[Own("snapshot")].lines = <<>>

\* C13: no step writes latest.csv or an archive file before the previous
\* snapshot has been loaded and the diff computed: files change only at the
\* delta and archive stages of main.
C13_NothingWrittenBeforeDiff ==
    [][files' # files => pc \in {"delta", "delta_removed", "archive"}]_vars

FetchFailureOutcome ==
    exc = "FetchError" =>
        /\ pc \in {"raised", "idle"}
        /\ df_new = NoFrame
        /\ pc = "raised" =>
               log = << Message("Starting scrape", 0, <<>>),
                        Message("ERROR during scrape", 0, <<>>) >>
        /\ pc = "idle" =>
               /\ exitCode = <<2>>
               /\ log = << Message("Starting scrape", 0, <<>>),
                           Message("ERROR during scrape", 0, <<>>),
                           Message("FATAL ERROR", 0, <<>>) >>

FetchFailureWritesNothing == exc' = "FetchError" => files' = files

\* C14: when scrape_page raises, the run logs one scrape attempt, the error
\* and the fatal error and nothing else, exits with code 2, and no step of
\* it changes latest.csv or any file under archive/.
C14_FetchFailure == []FetchFailureOutcome /\ [][FetchFailureWritesNothing]_vars

\* a run whose fetch failed has exited, with the artifacts of an earlier
\* run in place
C14_Witness ==
    /\ pc = "idle"
    /\ exc = "FetchError"
    /\ exitCode = <<2>>
    /\ LATEST_PATH \in DOMAIN files
    /\ archived_snapshots(files) # {}
    /\ files = committed

\* C15: the baseline a run reads back from the archived snapshot has the
\* rows of the snapshot as it was written, in the same order and with the
\* same name, price and hash text, and every row of the run's removed file
\* is a row of that snapshot with its field values unchanged.
C15_CsvRoundTrip ==
    /\ (pc = "detect_deltas" /\ LATEST_PATH \in DOMAIN committed) =>
           to_csv(df_old) = committed[LATEST_PATH]
    /\ (pc = "return" /\ LATEST_PATH \in DOMAIN committed
            /\ Own("removed") \in DOMAIN files /\ removed.rows # <<>>) =>
           Range(files[Own("removed")].lines)
               \subseteq Range(committed[LATEST_PATH].lines)

Fingerprints(df) == {Fingerprint(df.rows[i]) : i \in 1..Len(df.rows)}

RowsWith(rows, fp) == SelectSeq(rows, LAMBDA r : Fingerprint(r) = fp)

SameFingerprints(file, df) ==
    /\ Len(file.lines) = Len(df.rows)
    /\ \A i \in 1..Len(df.rows) : file.lines[i]["hash"] = Fingerprint(df.rows[i])

\* C16: a run that exits 0 has kept every scraped row, duplicates included
\* and in order, in latest.csv and in its archived snapshot; after the diff,
\* the rows of a fingerprint that only the new (old) snapshot has are all in
\* added (removed), as many and in the same order as in that snapshot, and
\* in the delta file written from it; two snapshots with the same set of
\* fingerprints, whatever the number of rows of each, give an empty delta.
C16_DuplicatesRetained ==
    /\ exitCode = <<0>> =>
           /\ SameFingerprints(files[LATEST_PATH], df_new)
           /\ SameFingerprints(files[Own("snapshot")], df_new)
    /\ pc \in {"delta", "delta_removed", "archive", "return"} =>
           /\ \A fp \in Fingerprints(df_new) \ Fingerprints(df_old) :
                  RowsWith(added.rows, fp) = RowsWith(df_new.rows, fp)
           /\ \A fp \in Fingerprints(df_old) \ Fingerprints(df_new) :
                  RowsWith(removed.rows, fp) = RowsWith(df_old.rows, fp)
           /\ Fingerprints(df_new) = Fingerprints(df_old) =>
                  added.rows = <<>> /\ removed.rows = <<>>
    /\ pc = "return" =>
           /\ added.rows # <<>> => SameFingerprints(files[Own("added")], added)
           /\ removed.rows # <<>> =>
                  SameFingerprints(files[Own("removed")], removed)

\* a run has removed both rows of a fingerprint the old snapshot held twice
C16_Witness ==
    /\ pc = "return"
    /\ Len(removed.rows) = 2
    /\ Fingerprint(removed.rows[1]) = Fingerprint(removed.rows[2])
    /\ Len(files[Own("removed")].lines) = 2

\* one row against the same row held twice: no delta
C16_WitnessCountOnly ==
    /\ pc = "return"
    /\ Len(df_new.rows) = 1
    /\ Len(df_old.rows) = 2
    /\ Fingerprints(df_new) = Fingerprints(df_old)
    /\ Logged("No changes detected.")

\* C17: the text that is hashed, name + "|" + price, is the same for two
\* cards only if their names are equal and their prices are equal; so a
\* scraped card whose name or price differs from the baseline card's gives a
\* delta that is not empty.
C17_FingerprintIdentifiesFields ==
    pc = "delta" =>
        LET new == to_csv(df_new).lines[1]
            old == to_csv(df_old).lines[1]
        IN  /\ new["name"] \o <<"|">> \o new["price"]
                   = old["name"] \o <<"|">> \o old["price"]
               => new["name"] = old["name"] /\ new["price"] = old["price"]
            /\ (new["name"] # old["name"] \/ new["price"] # old["price"])
               => ~(added.rows = <<>> /\ removed.rows = <<>>)

\* C12: after a run has been killed, latest.csv, when there is one, holds
\* the complete CSV of a snapshot: the one this run scraped, or the one an
\* earlier run scraped; never a truncated or partly written file.
C12_LatestNeverTorn ==
    (pc = "idle" /\ exitCode = <<137>> /\ LATEST_PATH \in DOMAIN files) =>
        \/ files[LATEST_PATH] = to_csv(df_new)
        \/ \E page \in Pages : files[LATEST_PATH] = to_csv(DataFrame(page))

====
